---- MODULE Spec2Model ----
(***************************************************************************)
(* zmk_to_vial.py: conversion of a ZMK keymap into a Vial .vil record.     *)
(*                                                                         *)
(* Source text is modelled after regular-expression recognition: a keymap  *)
(* content is the list of blocks the parser's patterns match (behavior     *)
(* blocks, macro blocks, combo blocks, layer blocks), each with its        *)
(* captured groups; bindings are the token lists str.split() yields.       *)
(* Keycodes and tokens are strings, handled character by character.        *)
(***************************************************************************)
EXTENDS Integers, Sequences, FiniteSets, TLC

VARIABLES
    pc,              \* position of main(), or of the operation under study
    args,            \* parsed command line: [local, template]
    files,           \* what the outside holds: source and template candidates
    keymap_content,  \* the source text retrieved (recognised blocks)
    template,        \* the template record loaded
    keymap,          \* ZMKParser.keymap: [layers, behaviors, macros, combos]
    tap_dances,      \* ZMKParser.tap_dances
    td_map,          \* ZMKParser.td_map
    vil,             \* the record generate() returns
    output,          \* the output file: <<>> until written, then <<vil>>
    trace,           \* history of _create_tap_dance calls (arguments, return)
    zmk_key,         \* argument of a lone _zmk_key_to_qmk call
    qmk_key          \* its return value, <<>> before the call

vars == <<pc, args, files, keymap_content, template, keymap, tap_dances,
          td_map, vil, output, trace, zmk_key, qmk_key>>

-----------------------------------------------------------------------------
(* Keycode tables                                                          *)

ZMK_TO_QMK ==
  [
    A |-> "KC_A", B |-> "KC_B", C |-> "KC_C", D |-> "KC_D", E |-> "KC_E", F |-> "KC_F",
    G |-> "KC_G", H |-> "KC_H", I |-> "KC_I", J |-> "KC_J", K |-> "KC_K", L |-> "KC_L",
    M |-> "KC_M", N |-> "KC_N", O |-> "KC_O", P |-> "KC_P", Q |-> "KC_Q", R |-> "KC_R",
    S |-> "KC_S", T |-> "KC_T", U |-> "KC_U", V |-> "KC_V", W |-> "KC_W", X |-> "KC_X",
    Y |-> "KC_Y", Z |-> "KC_Z", N0 |-> "KC_0", N1 |-> "KC_1", N2 |-> "KC_2",
    N3 |-> "KC_3", N4 |-> "KC_4", N5 |-> "KC_5", N6 |-> "KC_6", N7 |-> "KC_7",
    N8 |-> "KC_8", N9 |-> "KC_9", NUMBER_0 |-> "KC_0", NUMBER_1 |-> "KC_1",
    NUMBER_2 |-> "KC_2", NUMBER_3 |-> "KC_3", NUMBER_4 |-> "KC_4", NUMBER_5 |-> "KC_5",
    NUMBER_6 |-> "KC_6", NUMBER_7 |-> "KC_7", NUMBER_8 |-> "KC_8", NUMBER_9 |-> "KC_9",
    F1 |-> "KC_F1", F2 |-> "KC_F2", F3 |-> "KC_F3", F4 |-> "KC_F4", F5 |-> "KC_F5",
    F6 |-> "KC_F6", F7 |-> "KC_F7", F8 |-> "KC_F8", F9 |-> "KC_F9", F10 |-> "KC_F10",
    F11 |-> "KC_F11", F12 |-> "KC_F12", LEFT_CONTROL |-> "KC_LCTRL",
    LCTRL |-> "KC_LCTRL", LEFT_CTRL |-> "KC_LCTRL", RIGHT_CONTROL |-> "KC_RCTRL",
    RCTRL |-> "KC_RCTRL", RIGHT_CTRL |-> "KC_RCTRL", LEFT_SHIFT |-> "KC_LSHIFT",
    LSHIFT |-> "KC_LSHIFT", LSHFT |-> "KC_LSHIFT", RIGHT_SHIFT |-> "KC_RSHIFT",
    RSHIFT |-> "KC_RSHIFT", RSHFT |-> "KC_RSHIFT", LEFT_ALT |-> "KC_LALT",
    LALT |-> "KC_LALT", RIGHT_ALT |-> "KC_RALT", RALT |-> "KC_RALT",
    LEFT_GUI |-> "KC_LGUI", LGUI |-> "KC_LGUI", LEFT_WIN |-> "KC_LGUI",
    LWIN |-> "KC_LGUI", RIGHT_GUI |-> "KC_RGUI", RGUI |-> "KC_RGUI",
    RIGHT_WIN |-> "KC_RGUI", RWIN |-> "KC_RGUI", UP |-> "KC_UP", DOWN |-> "KC_DOWN",
    LEFT |-> "KC_LEFT", RIGHT |-> "KC_RIGHT", HOME |-> "KC_HOME", END |-> "KC_END",
    PAGE_UP |-> "KC_PGUP", PG_UP |-> "KC_PGUP", PGUP |-> "KC_PGUP",
    PAGE_DOWN |-> "KC_PGDN", PG_DN |-> "KC_PGDN", PGDN |-> "KC_PGDN",
    BACKSPACE |-> "KC_BSPACE", BSPC |-> "KC_BSPACE", BKSP |-> "KC_BSPACE",
    DELETE |-> "KC_DELETE", DEL |-> "KC_DELETE", INSERT |-> "KC_INSERT",
    INS |-> "KC_INSERT", ENTER |-> "KC_ENTER", RETURN |-> "KC_ENTER",
    RET |-> "KC_ENTER", TAB |-> "KC_TAB", ESCAPE |-> "KC_ESCAPE", ESC |-> "KC_ESCAPE",
    SPACE |-> "KC_SPACE", SPC |-> "KC_SPACE", CAPSLOCK |-> "KC_CAPSLOCK",
    CAPS |-> "KC_CAPSLOCK", PRINTSCREEN |-> "KC_PSCREEN", PSCRN |-> "KC_PSCREEN",
    PSCR |-> "KC_PSCREEN", MINUS |-> "KC_MINUS", PLUS |-> "KC_KP_PLUS",
    EQUAL |-> "KC_EQUAL", EQUALS |-> "KC_EQUAL", UNDERSCORE |-> "LSFT(KC_MINUS)",
    UNDER |-> "LSFT(KC_MINUS)", LEFT_BRACKET |-> "KC_LBRACKET", LBKT |-> "KC_LBRACKET",
    LBRC |-> "LSFT(KC_LBRACKET)", RIGHT_BRACKET |-> "KC_RBRACKET",
    RBKT |-> "KC_RBRACKET", RBRC |-> "LSFT(KC_RBRACKET)",
    LEFT_BRACE |-> "LSFT(KC_LBRACKET)", RIGHT_BRACE |-> "LSFT(KC_RBRACKET)",
    LEFT_PARENTHESIS |-> "LSFT(KC_9)", LPAR |-> "LSFT(KC_9)",
    RIGHT_PARENTHESIS |-> "LSFT(KC_0)", RPAR |-> "LSFT(KC_0)",
    BACKSLASH |-> "KC_BSLASH", BSLH |-> "KC_BSLASH", SLASH |-> "KC_SLASH",
    FSLH |-> "KC_SLASH", SEMICOLON |-> "KC_SCOLON", SEMI |-> "KC_SCOLON",
    COLON |-> "LSFT(KC_SCOLON)", APOSTROPHE |-> "KC_QUOTE", APOS |-> "KC_QUOTE",
    SQT |-> "KC_QUOTE", SINGLE_QUOTE |-> "KC_QUOTE",
    DOUBLE_QUOTES |-> "LSFT(KC_QUOTE)", DQT |-> "LSFT(KC_QUOTE)", COMMA |-> "KC_COMMA",
    PERIOD |-> "KC_DOT", DOT |-> "KC_DOT", GRAVE |-> "KC_GRAVE", GRV |-> "KC_GRAVE",
    TILDE |-> "LSFT(KC_GRAVE)", TILD |-> "LSFT(KC_GRAVE)",
    EXCLAMATION |-> "LSFT(KC_1)", EXCL |-> "LSFT(KC_1)", AT_SIGN |-> "LSFT(KC_2)",
    AT |-> "LSFT(KC_2)", HASH |-> "LSFT(KC_3)", POUND |-> "LSFT(KC_3)",
    DOLLAR |-> "LSFT(KC_4)", DLLR |-> "LSFT(KC_4)", PERCENT |-> "LSFT(KC_5)",
    PRCNT |-> "LSFT(KC_5)", CARET |-> "LSFT(KC_6)", CRRT |-> "LSFT(KC_6)",
    AMPERSAND |-> "LSFT(KC_7)", AMPS |-> "LSFT(KC_7)", ASTERISK |-> "LSFT(KC_8)",
    ASTRK |-> "LSFT(KC_8)", STAR |-> "LSFT(KC_8)", QUESTION |-> "LSFT(KC_SLASH)",
    QMARK |-> "LSFT(KC_SLASH)", PIPE |-> "LSFT(KC_BSLASH)",
    LESS_THAN |-> "LSFT(KC_COMMA)", LT |-> "LSFT(KC_COMMA)",
    GREATER_THAN |-> "LSFT(KC_DOT)", GT |-> "LSFT(KC_DOT)",
    KP_ASTERISK |-> "KC_KP_ASTERISK", KP_MULTIPLY |-> "KC_KP_ASTERISK",
    KP_PLUS |-> "KC_KP_PLUS", KP_ADD |-> "KC_KP_PLUS", KP_MINUS |-> "KC_KP_MINUS",
    KP_SUBTRACT |-> "KC_KP_MINUS", KP_SLASH |-> "KC_KP_SLASH",
    KP_DIVIDE |-> "KC_KP_SLASH", K_PLAY_PAUSE |-> "KC_MEDIA_PLAY_PAUSE",
    C_PP |-> "KC_MEDIA_PLAY_PAUSE", K_STOP |-> "KC_MEDIA_STOP",
    C_STOP |-> "KC_MEDIA_STOP", K_NEXT |-> "KC_MEDIA_NEXT_TRACK",
    C_NEXT |-> "KC_MEDIA_NEXT_TRACK", K_PREV |-> "KC_MEDIA_PREV_TRACK",
    C_PREV |-> "KC_MEDIA_PREV_TRACK", K_VOL_UP |-> "KC_AUDIO_VOL_UP",
    C_VOL_UP |-> "KC_AUDIO_VOL_UP", K_VOL_DN |-> "KC_AUDIO_VOL_DOWN",
    C_VOL_DN |-> "KC_AUDIO_VOL_DOWN", K_MUTE |-> "KC_AUDIO_MUTE",
    C_MUTE |-> "KC_AUDIO_MUTE", K_APPLICATION |-> "KC_APPLICATION",
    K_APP |-> "KC_APPLICATION", K_CMENU |-> "KC_APPLICATION", BT_CLR |-> "KC_NO",
    BT_CLR_ALL |-> "KC_NO", BT_SEL |-> "KC_NO", BT_PRV |-> "KC_NO", BT_NXT |-> "KC_NO",
    BT_DISC |-> "KC_NO", OUT_TOG |-> "KC_NO", OUT_USB |-> "KC_NO", OUT_BLE |-> "KC_NO",
    EP_ON |-> "KC_NO", EP_OFF |-> "KC_NO", EP_TOG |-> "KC_NO", EXT_POWER |-> "KC_NO",
    RGB_TOG |-> "KC_NO", RGB_EFF |-> "KC_NO", RGB_EFR |-> "KC_NO", RGB_HUI |-> "KC_NO",
    RGB_HUD |-> "KC_NO", RGB_SAI |-> "KC_NO", RGB_SAD |-> "KC_NO", RGB_BRI |-> "KC_NO",
    RGB_BRD |-> "KC_NO", RGB_SPI |-> "KC_NO", RGB_SPD |-> "KC_NO"
  ]

ZMK_MOD_MAP ==
  [
    LC |-> "LCTL", LEFT_CONTROL |-> "LCTL", LCTRL |-> "LCTL", RC |-> "RCTL",
    RIGHT_CONTROL |-> "RCTL", RCTRL |-> "RCTL", LS |-> "LSFT", LEFT_SHIFT |-> "LSFT",
    LSHIFT |-> "LSFT", LSHFT |-> "LSFT", RS |-> "RSFT", RIGHT_SHIFT |-> "RSFT",
    RSHIFT |-> "RSFT", RSHFT |-> "RSFT", LA |-> "LALT", LEFT_ALT |-> "LALT",
    RA |-> "RALT", RIGHT_ALT |-> "RALT", LG |-> "LGUI", LEFT_GUI |-> "LGUI",
    LWIN |-> "LGUI", LCMD |-> "LGUI", LMETA |-> "LGUI", RG |-> "RGUI",
    RIGHT_GUI |-> "RGUI", RWIN |-> "RGUI", RCMD |-> "RGUI", RMETA |-> "RGUI"
  ]

-----------------------------------------------------------------------------
(* Strings                                                                 *)

Char(s, i) == SubSeq(s, i, i)

StartsWith(s, p) == Len(s) >= Len(p) /\ SubSeq(s, 1, Len(p)) = p

EndsWith(s, p) == Len(s) >= Len(p) /\ SubSeq(s, Len(s) - Len(p) + 1, Len(s)) = p

\* the characters \w matches
WordChars ==
    { "a", "b", "c", "d", "e", "f", "g", "h", "i", "j", "k", "l", "m",
      "n", "o", "p", "q", "r", "s", "t", "u", "v", "w", "x", "y", "z",
      "A", "B", "C", "D", "E", "F", "G", "H", "I", "J", "K", "L", "M",
      "N", "O", "P", "Q", "R", "S", "T", "U", "V", "W", "X", "Y", "Z",
      "0", "1", "2", "3", "4", "5", "6", "7", "8", "9", "_" }

\* length of the longest run of word characters s starts with (greedy \w+)
WordRun(s) ==
    LET RECURSIVE run(_)
        run(i) == IF i <= Len(s) /\ Char(s, i) \in WordChars
                  THEN run(i + 1) ELSE i - 1
    IN  run(1)

-----------------------------------------------------------------------------
(* ZMKParser._zmk_key_to_qmk                                               *)

\* re.match(r'(\w+)\((.+)\)$', zmk_key): a word, "(", at least one
\* character, and ")" as the last character
ModMatch(key) ==
    LET n == WordRun(key)
    IN  /\ n >= 1
        /\ Len(key) >= n + 3
        /\ Char(key, n + 1) = "("
        /\ Char(key, Len(key)) = ")"

ModGroup(key) == SubSeq(key, 1, WordRun(key))

InnerGroup(key) == SubSeq(key, WordRun(key) + 2, Len(key) - 1)

\* the modifier name kept as written, the alias table left out
QmkModLiteral(mod) == mod

\* ZMK_MOD_MAP.get(mod, mod)
QmkMod(mod) == IF mod \in DOMAIN ZMK_MOD_MAP THEN ZMK_MOD_MAP[mod] ELSE mod

RECURSIVE ZmkKeyToQmk(_)
ZmkKeyToQmk(key) ==
    IF ModMatch(key)
    THEN QmkMod(ModGroup(key)) \o "(" \o ZmkKeyToQmk(InnerGroup(key)) \o ")"
    ELSE IF key \in DOMAIN ZMK_TO_QMK THEN ZMK_TO_QMK[key]
    ELSE IF StartsWith(key, "KC_") THEN key
    ELSE "KC_" \o key

-----------------------------------------------------------------------------
(* ZMKParser._create_tap_dance                                             *)

\* class Behavior: the dataclass defaults
NewBehavior(name) ==
    [name |-> name, tapping_term |-> 200, flavor |-> "tap-preferred",
     require_prior_idle |-> 0]

\* class TapDance: tapping_term defaults to 140, the two other actions to KC_NO
NewTapDance(tap, hold, tapping_term) ==
    [tap |-> tap, hold |-> hold, tapping_term |-> tapping_term,
     double_tap |-> "KC_NO", tap_hold |-> "KC_NO"]

\* the tapping term _create_tap_dance picks for an owning behavior name
TappingTermOf(behaviors, behavior) ==
    IF behavior \in DOMAIN behaviors THEN behaviors[behavior].tapping_term
    ELSE IF "mt" \in DOMAIN behaviors THEN behaviors["mt"].tapping_term
    ELSE 140

\* td_key = f"{qmk_tap}|{qmk_hold}"
TdKey(qmk_tap, qmk_hold) == qmk_tap \o "|" \o qmk_hold

TdRef(idx) == "TD(" \o ToString(idx) \o ")"

\* _create_tap_dance without the td_map lookup: every call appends
CreateTapDanceNoLookup(st, behaviors, tap_key, hold_key, behavior) ==
    LET qmk_tap  == ZmkKeyToQmk(tap_key)
        qmk_hold == ZmkKeyToQmk(hold_key)
        td_idx == Len(st.tap_dances)
    IN  [tap_dances |-> Append(st.tap_dances,
                               [tap |-> qmk_tap, hold |-> qmk_hold,
                                tapping_term |-> 140, double_tap |-> "KC_NO",
                                tap_hold |-> "KC_NO"]),
         td_map |-> st.td_map,
         ret |-> "TD(" \o ToString(td_idx) \o ")"]

\* _create_tap_dance on parser state st = [tap_dances, td_map]; the result is
\* the new parser state and the reference returned.  Indices are Python's,
\* from 0: entry i of the list is tap_dances[i + 1].
CreateTapDance(st, behaviors, tap_key, hold_key, behavior) ==
    LET qmk_tap  == ZmkKeyToQmk(tap_key)
        qmk_hold == ZmkKeyToQmk(hold_key)
        tapping_term == TappingTermOf(behaviors, behavior)
        td_key == TdKey(qmk_tap, qmk_hold)
        td_idx == Len(st.tap_dances)
    IN  IF td_key \in DOMAIN st.td_map
        THEN [tap_dances |-> st.tap_dances, td_map |-> st.td_map,
              ret |-> TdRef(st.td_map[td_key])]
        ELSE [tap_dances |-> Append(st.tap_dances,
                                    NewTapDance(qmk_tap, qmk_hold, tapping_term)),
              td_map |-> [k \in DOMAIN st.td_map \cup {td_key} |->
                             IF k = td_key THEN td_idx ELSE st.td_map[k]],
              ret |-> TdRef(td_idx)]

-----------------------------------------------------------------------------
(* ZMKParser._parse_bindings                                               *)

\* keymap.macros is an insertion-ordered dict: a sequence of [name, actions]
\* with distinct names
MacroNames(macros) == { macros[k].name : k \in 1..Len(macros) }

\* the position counted from 1
MacroIndexFromOne(macros, name) ==
    CHOOSE k \in 1..Len(macros) : macros[k].name = name

\* list(self.keymap.macros.keys()).index(behavior)
MacroIndex(macros, name) ==
    (CHOOSE k \in 1..Len(macros) : macros[k].name = name) - 1

\* One turn of the while loop at 1-based position i.  st carries keys,
\* tap_dances, td_map; the result carries them and the next position.
BindingStep(tokens, i, st, km) ==
    LET token == tokens[i]
        behavior == Tail(token)
        n == Len(tokens)
        emit(k, step) == [keys |-> Append(st.keys, k), tap_dances |-> st.tap_dances,
                          td_map |-> st.td_map, i |-> i + step]
        skip(step) == [keys |-> st.keys, tap_dances |-> st.tap_dances,
                       td_map |-> st.td_map, i |-> i + step]
        dance(name) ==
            LET r == CreateTapDance(st, km.behaviors, tokens[i + 2], tokens[i + 1], name)
            IN  [keys |-> Append(st.keys, r.ret), tap_dances |-> r.tap_dances,
                 td_map |-> r.td_map, i |-> i + 3]
    IN  IF ~StartsWith(token, "&") THEN skip(1)
        ELSE IF behavior = "none" THEN emit("KC_NO", 1)
        ELSE IF behavior = "trans" THEN emit("KC_TRNS", 1)
        ELSE IF behavior = "kp" THEN
            IF i + 1 <= n THEN emit(ZmkKeyToQmk(tokens[i + 1]), 2) ELSE skip(1)
        ELSE IF behavior \in {"mt", "mt0", "mti"} THEN
            IF i + 2 <= n THEN dance(behavior) ELSE skip(1)
        ELSE IF behavior = "lt" THEN
            IF i + 2 <= n
            THEN emit("LT" \o tokens[i + 1] \o "(" \o ZmkKeyToQmk(tokens[i + 2]) \o ")", 3)
            ELSE skip(1)
        ELSE IF behavior = "mo" THEN
            IF i + 1 <= n THEN emit("MO(" \o tokens[i + 1] \o ")", 2) ELSE skip(1)
        ELSE IF behavior = "to" THEN
            IF i + 1 <= n THEN emit("TO(" \o tokens[i + 1] \o ")", 2) ELSE skip(1)
        ELSE IF behavior \in MacroNames(km.macros) THEN
            emit("M" \o ToString(MacroIndex(km.macros, behavior)), 1)
        ELSE IF behavior = "bt" THEN
            IF i + 1 <= n
            THEN IF tokens[i + 1] = "BT_SEL" /\ i + 2 <= n
                 THEN emit("KC_NO", 3) ELSE emit("KC_NO", 2)
            ELSE emit("KC_NO", 1)
        ELSE IF i + 2 <= n /\ ~StartsWith(tokens[i + 1], "&") THEN dance(behavior)
        ELSE emit("KC_NO", 1)

\* The while loop, for the iterations that start below position stop.  The
\* iterations run in order, each from the state the one before left; the
\* range is halved only to keep the evaluation shallow.
RECURSIVE BindingLoop(_, _, _, _)
BindingLoop(tokens, st, stop, km) ==
    IF st.i >= stop \/ st.i > Len(tokens) THEN st
    ELSE IF stop - st.i <= 1 THEN BindingStep(tokens, st.i, st, km)
    ELSE LET mid == st.i + ((stop - st.i) \div 2)
         IN  BindingLoop(tokens, BindingLoop(tokens, st, mid, km), stop, km)

\* _parse_bindings over the tokens of bindings_str.split(), from parser state
\* ps = [tap_dances, td_map]: the keys and the parser state afterwards
ParseBindings(tokens, ps, km) ==
    BindingLoop(tokens,
                [keys |-> <<>>, tap_dances |-> ps.tap_dances, td_map |-> ps.td_map,
                 i |-> 1],
                Len(tokens) + 1, km)

-----------------------------------------------------------------------------
(* ZMKParser._parse_behaviors                                              *)

\* dict assignment d[name] = value on a function with a set of names as domain
DictSet(d, name, value) ==
    [k \in DOMAIN d \cup {name} |-> IF k = name THEN value ELSE d[k]]

\* The three optional properties searched in a block body.  A body is
\* [tt, flavor, idle], each <<>> when the property is absent and <<v>> when
\* its pattern matches with value v.
BehaviorFrom(name, body) ==
    LET b0 == NewBehavior(name)
        b1 == IF body.tt # <<>> THEN [b0 EXCEPT !.tapping_term = body.tt[1]] ELSE b0
        b2 == IF body.flavor # <<>> THEN [b1 EXCEPT !.flavor = body.flavor[1]] ELSE b1
    IN  IF body.idle # <<>> THEN [b2 EXCEPT !.require_prior_idle = body.idle[1]] ELSE b2

RECURSIVE BehaviorsLoop(_, _, _)
BehaviorsLoop(blocks, k, behaviors) ==
    IF k > Len(blocks) THEN behaviors
    ELSE BehaviorsLoop(blocks, k + 1,
                       DictSet(behaviors, blocks[k].name,
                               BehaviorFrom(blocks[k].name, blocks[k].body)))

\* content.behaviors: the matches of NAME: NAME { body }, in order;
\* content.mt_config: <<>> or <<body>>, the first match of &mt { body }
ParseBehaviors(content, behaviors) ==
    LET named == BehaviorsLoop(content.behaviors, 1, behaviors)
    IN  IF content.mt_config # <<>>
        THEN DictSet(named, "mt", BehaviorFrom("mt", content.mt_config[1]))
        ELSE named

-----------------------------------------------------------------------------
(* ZMKParser._keys_to_text and _parse_macros                               *)

text_chars ==
  [
    A |-> "a", B |-> "b", C |-> "c", D |-> "d", E |-> "e", F |-> "f", G |-> "g",
    H |-> "h", I |-> "i", J |-> "j", K |-> "k", L |-> "l", M |-> "m", N |-> "n",
    O |-> "o", P |-> "p", Q |-> "q", R |-> "r", S |-> "s", T |-> "t", U |-> "u",
    V |-> "v", W |-> "w", X |-> "x", Y |-> "y", Z |-> "z", N0 |-> "0", N1 |-> "1",
    N2 |-> "2", N3 |-> "3", N4 |-> "4", N5 |-> "5", N6 |-> "6", N7 |-> "7", N8 |-> "8",
    N9 |-> "9", SPACE |-> " ", SPC |-> " ", DOT |-> ".", PERIOD |-> ".", COMMA |-> ",",
    UNDER |-> "_", UNDERSCORE |-> "_", MINUS |-> "-", PRCNT |-> "%", PERCENT |-> "%",
    STAR |-> "*", ASTERISK |-> "*", ASTRK |-> "*"
  ]

LowerToUpper ==
    [a |-> "A", b |-> "B", c |-> "C", d |-> "D", e |-> "E", f |-> "F", g |-> "G",
     h |-> "H", i |-> "I", j |-> "J", k |-> "K", l |-> "L", m |-> "M", n |-> "N",
     o |-> "O", p |-> "P", q |-> "Q", r |-> "R", s |-> "S", t |-> "T", u |-> "U",
     v |-> "V", w |-> "W", x |-> "X", y |-> "Y", z |-> "Z"]

\* str.upper() of a one-character string
Upper(c) == IF c \in DOMAIN LowerToUpper THEN LowerToUpper[c] ELSE c

\* re.match(r'LS\((\w+)\)', key): "LS(", a word and ")" at the start of key
ShiftMatch(key) ==
    /\ StartsWith(key, "LS(")
    /\ LET n == WordRun(SubSeq(key, 4, Len(key)))
       IN  n >= 1 /\ Len(key) >= n + 4 /\ Char(key, n + 4) = ")"

ShiftInner(key) == SubSeq(key, 4, 3 + WordRun(SubSeq(key, 4, Len(key))))

\* _keys_to_text skipping a key it cannot map, instead of giving up
KeyTextSkipping(key) ==
    IF key \in DOMAIN text_chars THEN <<text_chars[key]>> ELSE <<"">>

\* What one key adds to the text: <<c>> for the string c it contributes
\* (the empty string for a key that is skipped), <<>> when the key makes
\* _keys_to_text return None.
KeyText(key) ==
    IF ShiftMatch(key) /\ ShiftInner(key) \in DOMAIN text_chars
        THEN <<Upper(text_chars[ShiftInner(key)])>>
    ELSE IF ShiftMatch(key) /\ ShiftInner(key) = "MINUS" THEN <<"_">>
    ELSE IF key \in DOMAIN text_chars THEN <<text_chars[key]>>
    ELSE IF key \in {"RET", "ENTER"} THEN <<"\n">>
    ELSE IF key \in {"NONE", "none"} THEN <<"">>
    ELSE <<>>

RECURSIVE KeysToTextLoop(_, _, _)
KeysToTextLoop(keys, k, text) ==
    IF k > Len(keys) THEN IF text # "" THEN <<text>> ELSE <<>>
    ELSE IF KeyText(keys[k]) = <<>> THEN <<>>
    ELSE KeysToTextLoop(keys, k + 1, text \o KeyText(keys[k])[1])

\* _keys_to_text: <<text>>, or <<>> for None
KeysToText(keys) == KeysToTextLoop(keys, 1, "")

\* re.findall(r'&kp\s+(\S+)', bindings_str) over the tokens of the bindings:
\* a token ending in "&kp" captures the token after it, and the scan goes on
\* behind the captured token
RECURSIVE FindKp(_, _)
FindKp(tokens, i) ==
    IF i + 1 > Len(tokens) THEN <<>>
    ELSE IF EndsWith(tokens[i], "&kp")
         THEN <<tokens[i + 1]>> \o FindKp(tokens, i + 2)
         ELSE FindKp(tokens, i + 1)

QmkKeys(keys) == [k \in 1..Len(keys) |-> ZmkKeyToQmk(keys[k])]

\* the actions list of the Macro built from one matched block
MacroActions(tokens) ==
    LET keys == FindKp(tokens, 1)
        text == KeysToText(keys)
    IN  IF keys = <<>> THEN <<>>
        ELSE IF text # <<>> THEN << <<"text", text[1]>> >>
        ELSE << <<"tap">> \o QmkKeys(keys) >>

\* self.keymap.macros[name] = macro on the ordered dict
MacroSet(macros, name, actions) ==
    IF name \in MacroNames(macros)
    THEN [k \in 1..Len(macros) |->
            IF macros[k].name = name THEN [name |-> name, actions |-> actions]
            ELSE macros[k]]
    ELSE Append(macros, [name |-> name, actions |-> actions])

RECURSIVE MacrosLoop(_, _, _)
MacrosLoop(blocks, k, macros) ==
    IF k > Len(blocks) THEN macros
    ELSE MacrosLoop(blocks, k + 1,
                    MacroSet(macros, blocks[k].name, MacroActions(blocks[k].bindings)))

\* content.macros: the matches of the macro pattern, [name, bindings tokens]
ParseMacros(content, macros) == MacrosLoop(content.macros, 1, macros)

-----------------------------------------------------------------------------
(* ZMKParser._convert_binding and _parse_combos                            *)

\* binding.startswith(prefix) after strip(): the binding is its token list
BindingStartsWith(tokens, prefix) == tokens # <<>> /\ StartsWith(tokens[1], prefix)

\* binding.split()[1] if len(binding.split()) > 1 else dflt
SecondToken(tokens, dflt) == IF Len(tokens) > 1 THEN tokens[2] ELSE dflt

ConvertBinding(tokens) ==
    IF BindingStartsWith(tokens, "&mo") THEN "MO(" \o SecondToken(tokens, "0") \o ")"
    ELSE IF BindingStartsWith(tokens, "&to") THEN "TO(" \o SecondToken(tokens, "0") \o ")"
    ELSE IF BindingStartsWith(tokens, "&kp") THEN ZmkKeyToQmk(SecondToken(tokens, ""))
    ELSE IF BindingStartsWith(tokens, "&trans") THEN "KC_TRNS"
    ELSE IF BindingStartsWith(tokens, "&none") THEN "KC_NO"
    ELSE "KC_NO"

DigitValue ==
    [c \in {"0", "1", "2", "3", "4", "5", "6", "7", "8", "9"} |->
        CASE c = "0" -> 0 [] c = "1" -> 1 [] c = "2" -> 2 [] c = "3" -> 3
          [] c = "4" -> 4 [] c = "5" -> 5 [] c = "6" -> 6 [] c = "7" -> 7
          [] c = "8" -> 8 [] c = "9" -> 9]

\* str.isdigit(): not empty, decimal digits only
IsDigit(p) == Len(p) > 0 /\ \A i \in 1..Len(p) : Char(p, i) \in DOMAIN DigitValue

RECURSIVE ToInt(_)
ToInt(p) ==
    IF Len(p) = 0 THEN 0
    ELSE 10 * ToInt(SubSeq(p, 1, Len(p) - 1)) + DigitValue[Char(p, Len(p))]

\* [int(p) for p in positions if p.isdigit()]
RECURSIVE ComboKeys(_)
ComboKeys(positions) ==
    IF positions = <<>> THEN <<>>
    ELSE IF IsDigit(Head(positions))
         THEN <<ToInt(Head(positions))>> \o ComboKeys(Tail(positions))
         ELSE ComboKeys(Tail(positions))

\* content.combos: the matches of the combo pattern, [binding, positions]
ParseCombos(content, combos) ==
    combos \o [k \in 1..Len(content.combos) |->
                 [keys |-> ComboKeys(content.combos[k].positions),
                  result |-> ConvertBinding(content.combos[k].binding)]]

-----------------------------------------------------------------------------
(* ZMKParser._parse_layers                                                 *)

\* str.replace('_layer', ''): every occurrence, left to right
RECURSIVE StripLayerSuffix(_)
StripLayerSuffix(name) ==
    IF name = "" THEN ""
    ELSE IF StartsWith(name, "_layer")
         THEN StripLayerSuffix(SubSeq(name, 7, Len(name)))
         ELSE Char(name, 1) \o StripLayerSuffix(Tail(name))

\* The loop over the layer blocks matched inside the keymap section.  st is
\* [layers, tap_dances, td_map]; a block whose bindings give no key is dropped.
RECURSIVE LayersLoop(_, _, _, _)
LayersLoop(blocks, k, st, km) ==
    IF k > Len(blocks) THEN st
    ELSE LET r == ParseBindings(blocks[k].bindings, st, km)
         IN  LayersLoop(blocks, k + 1,
                 [layers |-> IF r.keys # <<>>
                             THEN Append(st.layers,
                                         [name |-> StripLayerSuffix(blocks[k].name),
                                          keys |-> r.keys])
                             ELSE st.layers,
                  tap_dances |-> r.tap_dances, td_map |-> r.td_map], km)

\* content.has_keymap: 'keymap {' occurs in the comment-stripped text;
\* content.layers: the matches of layer_pattern in the keymap section
ParseLayers(content, km, tds, map) ==
    IF ~content.has_keymap
    THEN [layers |-> km.layers, tap_dances |-> tds, td_map |-> map]
    ELSE LayersLoop(content.layers, 1,
                    [layers |-> km.layers, tap_dances |-> tds, td_map |-> map], km)

-----------------------------------------------------------------------------
(* VialGenerator                                                           *)

Repeat(x, n) == [k \in 1..n |-> x]

\* while len(xs) < n: xs.append(x)
PadTo(xs, n, x) == IF Len(xs) < n THEN xs \o Repeat(x, n - Len(xs)) ELSE xs

Reversed(xs) == [k \in 1..Len(xs) |-> xs[Len(xs) + 1 - k]]

\* Python's xs[a:b] for 0 <= a <= b, clipped to the list
Slice(xs, a, b) ==
    LET hi == IF b < Len(xs) THEN b ELSE Len(xs)
    IN  IF a >= hi THEN <<>> ELSE SubSeq(xs, a + 1, hi)

TdPadRow == <<"KC_NO", "KC_NO", "KC_NO", "KC_NO", 200>>

ComboPadRow == <<"KC_NO", "KC_NO", "KC_NO", "KC_NO", "KC_NO">>

GenerateTapDances(tds) ==
    PadTo([k \in 1..Len(tds) |->
             <<tds[k].tap, tds[k].hold, tds[k].double_tap, tds[k].tap_hold,
               tds[k].tapping_term>>],
          32, TdPadRow)

GenerateMacros(macros) ==
    PadTo([k \in 1..Len(macros) |-> macros[k].actions], 16, <<>>)

GenerateCombos(combos) ==
    PadTo([k \in 1..Len(combos) |->
             <<"KC_NO", "KC_NO", "KC_NO", "KC_NO", combos[k].result>>],
          32, ComboPadRow)

\* a padding loop that stops one slot short
PadKeysShort(keys) == PadTo(keys, 41, "KC_NO")

\* the in-place padding of layer['keys'] by _generate_layout
PadKeys(keys) == PadTo(keys, 42, "KC_NO")

PaddedLayers(layers) ==
    [k \in 1..Len(layers) |-> [layers[k] EXCEPT !.keys = PadKeys(layers[k].keys)]]

LeftRow(keys, a) == Slice(keys, a, a + 6)

\* a right-hand row left in source order
RightRowUnreversed(keys, a) == Slice(keys, a, a + 6)

RightRow(keys, a) == Reversed(Slice(keys, a, a + 6))

\* new_layer: the eight rows built from the padded keys of one layer
NewLayer(keys) ==
    << LeftRow(keys, 0), LeftRow(keys, 12), LeftRow(keys, 24),
       <<-1, -1, -1>> \o Slice(keys, 36, 39),
       RightRow(keys, 6), RightRow(keys, 18), RightRow(keys, 30),
       <<-1, -1, -1>> \o Reversed(Slice(keys, 39, 42)) >>

\* _generate_layout once the keys are padded: the keymap's layers, then the
\* template's layers from index len(layout) on
GenerateLayout(layers, template_layout) ==
    LET layout == [k \in 1..Len(layers) |-> NewLayer(PadKeys(layers[k].keys))]
    IN  layout \o Slice(template_layout, Len(layout), Len(template_layout))

\* _generate_settings
GenerateSettings(tmpl, behaviors) ==
    LET settings == IF "settings" \in DOMAIN tmpl THEN tmpl["settings"] ELSE <<>>
        s4 == IF "mt" \in DOMAIN behaviors
              THEN DictSet(settings, "4", behaviors["mt"].tapping_term)
              ELSE IF "mt0" \in DOMAIN behaviors
                   THEN DictSet(settings, "4", behaviors["mt0"].tapping_term)
                   ELSE settings
    IN  IF "mt" \in DOMAIN behaviors /\ behaviors["mt"].require_prior_idle # 0
        THEN DictSet(s4, "10", behaviors["mt"].require_prior_idle)
        ELSE s4

-----------------------------------------------------------------------------
(* Inputs                                                                  *)

MaxLayerBlocks == 13
MaxMacros == 17
MaxCombos == 33
MaxMacroKeys == 3
MaxDepth == 3
MaxCalls == 3

KeyNames ==
    << "A", "B", "C", "D", "E", "F", "G", "H", "I", "J", "K", "L", "M", "N", "O",
       "P", "Q", "R", "S", "T", "U", "V", "W", "X", "Y", "Z", "N0", "N1", "N2",
       "N3", "N4", "N5", "N6", "N7", "N8", "N9", "F1", "F2", "F3", "F4", "F5",
       "F6", "F7", "F8", "F9", "F10", "F11", "F12" >>

HoldNames == <<"LSHFT", "LCTRL", "LALT">>

KeyName(j) == KeyNames[((j - 1) % Len(KeyNames)) + 1]

\* n bindings "&kp KEY" over distinct keys
KpBindings(n) == [t \in 1..(2 * n) |-> IF t % 2 = 1 THEN "&kp" ELSE KeyName(t \div 2)]

\* n bindings "&mt MOD KEY" over distinct (KEY, MOD) pairs
MtBindings(n) ==
    [t \in 1..(3 * n) |->
        CASE t % 3 = 1 -> "&mt"
          [] t % 3 = 2 -> HoldNames[((t \div 3) % Len(HoldNames)) + 1]
          [] OTHER     -> KeyName(t \div 3)]

\* one binding of every form of the grammar, and a "&kp" with no key at the end
MixBindings ==
    << "&none", "&trans", "&kp", "LG(LS(K))", "&mt0", "LCTRL", "A",
       "&lt", "1", "SPACE", "&mo", "2", "&to", "0", "&bt", "BT_SEL", "0",
       "&bt", "BT_CLR", "&m1", "&caps_word", "&hm", "LALT", "S", "&mti",
       "LSHFT", "A", "&kp" >>

\* a block with bindings that are no key bindings (sensor bindings)
NoiseBindings == <<"INC_DEC", "C_VOL_UP", "C_VOL_DN">>

LayerShapes ==
    << KpBindings(42), MtBindings(42), MixBindings, NoiseBindings, KpBindings(43),
       KpBindings(41), KpBindings(1) >>

LayerBlock(k) ==
    [name |-> "l" \o ToString(k) \o "_layer",
     bindings |-> LayerShapes[((k - 1) % Len(LayerShapes)) + 1]]

MacroShapes ==
    << <<"&kp", "H", "&kp", "I">>,
       <<"&macro_tap", "&kp", "LC(F1)", "&kp", "A">>,
       <<"&macro_wait_time", "50">>,
       <<"&kp", "LS(S)", "&kp", "NONE", "&kp", "ENTER">> >>

MacroBlock(k) ==
    [name |-> "m" \o ToString(k - 1),
     bindings |-> MacroShapes[((k - 1) % Len(MacroShapes)) + 1]]

ComboShapes ==
    << [binding |-> <<"&kp", "ESC">>, positions |-> <<"0", "1">>],
       [binding |-> <<"&mo", "1">>, positions |-> <<"12", "x", "13">>],
       [binding |-> <<"&caps_word">>, positions |-> <<"36", "37", "38">>] >>

ComboBlock(k) == ComboShapes[((k - 1) % Len(ComboShapes)) + 1]

NoBody == [tt |-> <<>>, flavor |-> <<>>, idle |-> <<>>]

\* the body of a behavior block: c = "tt" sets the tapping term, "tt_idle"
\* the tapping term and the idle threshold, "idle0" an idle threshold of 0
Body(c, tt, idle) ==
    CASE c = "tt"      -> [NoBody EXCEPT !.tt = <<tt>>]
      [] c = "tt_idle" -> [tt |-> <<tt>>, flavor |-> <<"balanced">>, idle |-> <<idle>>]
      [] c = "idle0"   -> [NoBody EXCEPT !.idle = <<0>>]
      [] OTHER         -> NoBody

BodyChoices == {"absent", "tt", "tt_idle", "idle0"}

\* a source: nb layer blocks in a keymap section, nm macros, nc combos, the
\* default &mt configured as mt says, a behavior mt0 declared as mt0 says, and
\* a custom behavior hm.  A macro block m: m { ... } is a match of the
\* behavior pattern too, with none of the three properties in its body.
Source(nb, nm, nc, mt, mt0, has_keymap) ==
    [behaviors |-> (IF mt0 # "absent"
                    THEN << [name |-> "mt0", body |-> Body(mt0, 250, 75)] >>
                    ELSE <<>>)
                   \o << [name |-> "hm", body |-> Body("tt", 280, 0)] >>
                   \o [k \in 1..nm |-> [name |-> MacroBlock(k).name, body |-> NoBody]],
     mt_config |-> IF mt # "absent" THEN << Body(mt, 180, 150) >> ELSE <<>>,
     macros |-> [k \in 1..nm |-> MacroBlock(k)],
     combos |-> [k \in 1..nc |-> ComboBlock(k)],
     has_keymap |-> has_keymap,
     layers |-> [k \in 1..nb |-> LayerBlock(k)]]

\* a text in which no pattern matches
EmptyContent ==
    [behaviors |-> <<>>, mt_config |-> <<>>, macros |-> <<>>, combos |-> <<>>,
     has_keymap |-> FALSE, layers |-> <<>>]

\* the text behind a source file of the outside
SourceText(id) ==
    IF id = "small" THEN Source(3, 2, 2, "tt_idle", "tt", TRUE) ELSE EmptyContent

TemplateKinds == {"missing", "denied", "badjson", "list", "nolayout", "saved"}

TemplatePaths == {"my.vil", "/tmp/vial.vil", "vial.vil", "template.vil"}

-----------------------------------------------------------------------------
(* The source text and what the patterns of the parser match in it         *)

MaxBlocks == 3
MaxComboBlocks == 2
MaxTokens == 3
MaxMacroBlocks == 3

\* A text is the sequence of the blocks written in it.  A block is written
\* either in the open or inside a comment (/* ... */ or // ...); a combo
\* block has its two properties in one of the two orders; the layer blocks
\* stand in the keymap section, which is itself in the open.
Block(kind, name, body, bindings, positions, order, commented) ==
    [kind |-> kind, name |-> name, body |-> body, bindings |-> bindings,
     positions |-> positions, order |-> order, commented |-> commented]

BehaviorText(name, body, commented) ==
    Block("behavior", name, body, <<>>, <<>>, "", commented)

MacroText(name, bindings, commented) ==
    Block("macro", name, NoBody, bindings, <<>>, "", commented)

ComboText(bindings, positions, order, commented) ==
    Block("combo", "combo_x", NoBody, bindings, positions, order, commented)

LayerText(name, bindings, commented) ==
    Block("layer", name, NoBody, bindings, <<>>, "", commented)

OfKind(text, kinds) == SelectSeq(text, LAMBDA b : b.kind \in kinds)

\* _strip_comments: the two re.sub calls delete what is written in comments
StripComments(text) == SelectSeq(text, LAMBDA b : ~b.commented)

\* combo_pattern: bindings = <...>, then key-positions = <...> before the
\* closing brace of the block
ComboPatternMatches(b) == b.kind = "combo" /\ b.order = "bindings_first"

\* The matches of each pattern, in the text each extraction step searches:
\* _parse_behaviors, _parse_macros and _parse_combos search self.content,
\* _parse_layers searches _strip_comments(self.content).  A macro block is a
\* match of the behavior pattern too.
Recognise(text) ==
    LET named  == OfKind(text, {"behavior", "macro"})
        macros == OfKind(text, {"macro"})
        combos == SelectSeq(text, ComboPatternMatches)
        layers == OfKind(StripComments(text), {"layer"})
    IN  [behaviors |-> [k \in 1..Len(named) |->
                           [name |-> named[k].name, body |-> named[k].body]],
         mt_config |-> <<>>,
         macros |-> [k \in 1..Len(macros) |->
                        [name |-> macros[k].name, bindings |-> macros[k].bindings]],
         combos |-> [k \in 1..Len(combos) |->
                        [binding |-> combos[k].bindings,
                         positions |-> combos[k].positions]],
         has_keymap |-> TRUE,
         layers |-> [k \in 1..Len(layers) |->
                        [name |-> layers[k].name, bindings |-> layers[k].bindings]]]

\* the sequences over S of length 0..n
RECURSIVE SeqsUpTo(_, _)
SeqsUpTo(S, n) ==
    IF n = 0 THEN { <<>> }
    ELSE LET shorter == SeqsUpTo(S, n - 1)
         IN  shorter \cup { Append(q, x) : q \in { r \in shorter : Len(r) = n - 1 },
                                            x \in S }

-----------------------------------------------------------------------------
(* load_template_vil and main                                              *)

\* get_default_template(); uid is carried as text, it is only passed through
DefaultTemplate ==
    [version |-> 1,
     uid |-> "15126841831861545787",
     layout |-> Repeat(Repeat(Repeat("KC_NO", 6), 8), 10),
     encoder_layout |-> Repeat(<<>>, 10),
     layout_options |-> -1,
     macro |-> Repeat(<<>>, 16),
     vial_protocol |-> 5,
     via_protocol |-> 9,
     tap_dance |-> Repeat(TdPadRow, 32),
     combo |-> Repeat(ComboPadRow, 32),
     key_override |-> <<>>,
     alt_repeat_key |-> <<>>,
     settings |-> <<>>]

\* a template saved by Vial: settings present, layers of KC_TRNS
SavedTemplate ==
    [DefaultTemplate EXCEPT
        !.layout = Repeat(Repeat(Repeat("KC_TRNS", 6), 8), 10),
        !.settings = [k \in {"4", "7", "10"} |->
                         CASE k = "4" -> 111 [] k = "7" -> 1 [] OTHER -> 50]]

NoJson == [type |-> "none", val |-> <<>>]

\* What open() and json.load() give for a candidate file, by the kind of
\* file the outside holds: [status, json] with status "missing"
\* (FileNotFoundError), "denied" (any other error of open), "badjson"
\* (json.JSONDecodeError) or "json", and then json is the value parsed,
\* [type |-> "dict" or "list", val |-> the value].
TemplateFile(kind) ==
    CASE kind = "missing"  -> [status |-> "missing", json |-> NoJson]
      [] kind = "denied"   -> [status |-> "denied", json |-> NoJson]
      [] kind = "badjson"  -> [status |-> "badjson", json |-> NoJson]
      [] kind = "list"     -> [status |-> "json", json |-> [type |-> "list", val |-> <<>>]]
      [] kind = "nolayout" -> [status |-> "json",
                               json |-> [type |-> "dict", val |-> [version |-> 1]]]
      [] kind = "saved"    -> [status |-> "json",
                               json |-> [type |-> "dict", val |-> SavedTemplate]]

CandidatePaths(path) ==
    (IF path # <<>> THEN path ELSE <<>>) \o <<"/tmp/vial.vil", "vial.vil", "template.vil">>

\* the loop over paths_to_try: [crashed, value]
RECURSIVE TryPaths(_, _, _)
TryPaths(paths, k, tfiles) ==
    IF k > Len(paths)
    THEN [crashed |-> FALSE, value |-> [type |-> "dict", val |-> DefaultTemplate]]
    ELSE LET f == TemplateFile(tfiles[paths[k]])
         IN  IF f.status \in {"missing", "badjson"} THEN TryPaths(paths, k + 1, tfiles)
             ELSE IF f.status = "json" THEN [crashed |-> FALSE, value |-> f.json]
             ELSE [crashed |-> TRUE, value |-> f.json]

LoadTemplateVil(path, tfiles) == TryPaths(CandidatePaths(path), 1, tfiles)

EmptyKeymap == [layers |-> <<>>, behaviors |-> <<>>, macros |-> <<>>, combos |-> <<>>]

\* a retrieval that reports the failure and goes on with no text
RetrieveAndGoOn ==
    /\ pc = "retrieve"
    /\ keymap_content' = IF files.source = "ok" THEN SourceText(files.content)
                         ELSE keymap_content
    /\ pc' = "load_template"
    /\ UNCHANGED <<args, files, template, keymap, tap_dances, td_map, vil, output,
                   trace, zmk_key, qmk_key>>

\* main up to the template: the source is read from args.local when given
\* (any failure is an uncaught exception), else fetched (URLError exits with
\* status 1, a decoding failure is uncaught)
Retrieve ==
    /\ pc = "retrieve"
    /\ IF files.source = "ok"
       THEN /\ keymap_content' = SourceText(files.content)
            /\ pc' = "load_template"
       ELSE /\ keymap_content' = keymap_content
            /\ pc' = IF args.local = <<>> /\ files.source = "missing"
                     THEN "exit1" ELSE "crashed"
    /\ UNCHANGED <<args, files, template, keymap, tap_dances, td_map, vil, output,
                   trace, zmk_key, qmk_key>>

LoadTemplate ==
    /\ pc = "load_template"
    /\ LET r == LoadTemplateVil(args.template, files.templates)
       IN  IF r.crashed
           THEN pc' = "crashed" /\ template' = template
           ELSE pc' = "parse_behaviors" /\ template' = r.value
    /\ UNCHANGED <<args, files, keymap_content, keymap, tap_dances, td_map, vil,
                   output, trace, zmk_key, qmk_key>>

\* ZMKParser.parse, one step per call it makes
DoParseBehaviors ==
    /\ pc = "parse_behaviors"
    /\ keymap' = [keymap EXCEPT !.behaviors = ParseBehaviors(keymap_content, @)]
    /\ pc' = "parse_macros"
    /\ UNCHANGED <<args, files, keymap_content, template, tap_dances, td_map, vil,
                   output, trace, zmk_key, qmk_key>>

DoParseMacros ==
    /\ pc = "parse_macros"
    /\ keymap' = [keymap EXCEPT !.macros = ParseMacros(keymap_content, @)]
    /\ pc' = "parse_combos"
    /\ UNCHANGED <<args, files, keymap_content, template, tap_dances, td_map, vil,
                   output, trace, zmk_key, qmk_key>>

DoParseCombos ==
    /\ pc = "parse_combos"
    /\ keymap' = [keymap EXCEPT !.combos = ParseCombos(keymap_content, @)]
    /\ pc' = "parse_layers"
    /\ UNCHANGED <<args, files, keymap_content, template, tap_dances, td_map, vil,
                   output, trace, zmk_key, qmk_key>>

DoParseLayers ==
    /\ pc = "parse_layers"
    /\ LET r == ParseLayers(keymap_content, keymap, tap_dances, td_map)
       IN  /\ keymap' = [keymap EXCEPT !.layers = r.layers]
           /\ tap_dances' = r.tap_dances
           /\ td_map' = r.td_map
    /\ pc' = "generate"
    /\ UNCHANGED <<args, files, keymap_content, template, vil, output, trace,
                   zmk_key, qmk_key>>

\* the record generate() builds from a dict template that has a layout
Vil(tmpl, km, tds) ==
    [k \in DOMAIN tmpl \cup {"tap_dance", "macro", "combo", "layout", "settings"} |->
        CASE k = "tap_dance" -> GenerateTapDances(tds)
          [] k = "macro"     -> GenerateMacros(km.macros)
          [] k = "combo"     -> GenerateCombos(km.combos)
          [] k = "layout"    -> GenerateLayout(km.layers, tmpl["layout"])
          [] k = "settings"  -> GenerateSettings(tmpl, km.behaviors)
          [] OTHER           -> tmpl[k]]

\* VialGenerator.generate.  A template that is no dict fails at the first
\* item assignment; one without 'layout' fails in _generate_layout, after the
\* loop that pads the layers' keys in place.
Generate ==
    /\ pc = "generate"
    /\ IF template.type # "dict"
       THEN pc' = "crashed" /\ UNCHANGED <<keymap, vil>>
       ELSE /\ keymap' = [keymap EXCEPT !.layers = PaddedLayers(@)]
            /\ IF "layout" \in DOMAIN template.val
               THEN /\ vil' = Vil(template.val, keymap, tap_dances)
                    /\ pc' = "write"
               ELSE pc' = "crashed" /\ vil' = vil
    /\ UNCHANGED <<args, files, keymap_content, template, tap_dances, td_map,
                   output, trace, zmk_key, qmk_key>>

\* json.dump(vil_data, f) into args.output
WriteOutput ==
    /\ pc = "write"
    /\ output' = <<vil>>
    /\ pc' = "done"
    /\ UNCHANGED <<args, files, keymap_content, template, keymap, tap_dances,
                   td_map, vil, trace, zmk_key, qmk_key>>

-----------------------------------------------------------------------------
(* a lone _zmk_key_to_qmk call and lone _create_tap_dance calls            *)

TranslateKey ==
    /\ qmk_key = <<>>
    /\ qmk_key' = <<ZmkKeyToQmk(zmk_key)>>
    /\ UNCHANGED <<pc, args, files, keymap_content, template, keymap, tap_dances,
                   td_map, vil, output, trace, zmk_key>>

\* one call; trace keeps its arguments as translated, what it returned and
\* the length of tap_dances before and after
TapDanceCall(tap_key, hold_key, behavior) ==
    LET r == CreateTapDance([tap_dances |-> tap_dances, td_map |-> td_map],
                            keymap.behaviors, tap_key, hold_key, behavior)
    IN  /\ tap_dances' = r.tap_dances
        /\ td_map' = r.td_map
        /\ trace' = Append(trace, [tap |-> ZmkKeyToQmk(tap_key),
                                   hold |-> ZmkKeyToQmk(hold_key),
                                   behavior |-> behavior,
                                   ret |-> r.ret,
                                   before |-> Len(tap_dances),
                                   after |-> Len(r.tap_dances)])
        /\ UNCHANGED <<pc, args, files, keymap_content, template, keymap, vil,
                       output, zmk_key, qmk_key>>

-----------------------------------------------------------------------------
(* Specifications                                                          *)

Idle ==
    /\ keymap = EmptyKeymap
    /\ tap_dances = <<>>
    /\ td_map = <<>>
    /\ vil = <<>>
    /\ output = <<>>
    /\ trace = <<>>
    /\ zmk_key = ""
    /\ qmk_key = <<>>

NoFiles ==
    [source |-> "ok", content |-> "small",
     templates |-> [p \in TemplatePaths |-> "missing"]]

\* main(): any command line, any state of the outside

Init ==
    /\ pc = "retrieve"
    /\ args \in [local : {<<>>, <<"corne.keymap">>}, template : {<<>>, <<"my.vil">>}]
    /\ files \in [source : {"ok", "missing", "undecodable"},
                  content : {"small"},
                  templates : [TemplatePaths -> TemplateKinds]]
    /\ args.template = <<>> => files.templates["my.vil"] = "missing"
    /\ keymap_content = EmptyContent
    /\ template = NoJson
    /\ Idle

Next ==
    \/ Retrieve
    \/ LoadTemplate
    \/ DoParseBehaviors
    \/ DoParseMacros
    \/ DoParseCombos
    \/ DoParseLayers
    \/ Generate
    \/ WriteOutput

Spec == Init /\ [][Next]_vars

\* ZMKParser(content).parse() and VialGenerator(...).generate() over sources
\* of every size, with the built-in template or a saved one
ProjSources ==
    { Source(nb, nm, nc, mt, mt0, TRUE) :
        nb \in 0..MaxLayerBlocks, nm \in {0, 3, MaxMacros}, nc \in {0, MaxCombos},
        mt \in {"absent", "tt"}, mt0 \in {"tt_idle"} }
    \cup { Source(2, 1, 1, "tt", "tt", FALSE) }

InitProj ==
    /\ pc = "parse_behaviors"
    /\ args = [local |-> <<"corne.keymap">>, template |-> <<>>]
    /\ files = NoFiles
    /\ keymap_content \in ProjSources
    /\ template \in { [type |-> "dict", val |-> DefaultTemplate],
                      [type |-> "dict", val |-> SavedTemplate] }
    /\ Idle

NextProj ==
    \/ DoParseBehaviors
    \/ DoParseMacros
    \/ DoParseCombos
    \/ DoParseLayers
    \/ Generate

SpecProj == InitProj /\ [][NextProj]_vars

\* the same run over one short layer and every declaration of the behaviors
\* mt (as the default &mt, as a block mt: mt, or both) and mt0
BehSources ==
    { [Source(1, 0, 0, mt, mt0, TRUE) EXCEPT
          !.behaviors = (IF named # "absent"
                         THEN << [name |-> "mt", body |-> Body(named, 190, 160)] >>
                         ELSE <<>>) \o @] :
        mt \in BodyChoices, mt0 \in BodyChoices, named \in {"absent", "tt_idle"} }

InitBeh ==
    /\ pc = "parse_behaviors"
    /\ args = [local |-> <<"corne.keymap">>, template |-> <<>>]
    /\ files = NoFiles
    /\ keymap_content \in BehSources
    /\ template \in { [type |-> "dict", val |-> DefaultTemplate],
                      [type |-> "dict", val |-> SavedTemplate] }
    /\ Idle

SpecBeh == InitBeh /\ [][NextProj]_vars

\* _parse_macros over one macro of up to MaxMacroKeys key presses
MacroKeySet == {"H", "I", "F1", "NONE", "LS(S)", "ENTER", "LS(MINUS)", "LS(F1)"}

KeyPresses(keys) == [t \in 1..(2 * Len(keys)) |-> IF t % 2 = 1 THEN "&kp" ELSE keys[t \div 2]]

InitMacro ==
    /\ pc = "parse_macros"
    /\ args = [local |-> <<"corne.keymap">>, template |-> <<>>]
    /\ files = NoFiles
    /\ \E n \in 0..MaxMacroKeys : \E keys \in [1..n -> MacroKeySet] :
          keymap_content =
              [EmptyContent EXCEPT
                  !.macros = << [name |-> "m0", bindings |-> KeyPresses(keys)] >>]
    /\ template = [type |-> "dict", val |-> DefaultTemplate]
    /\ Idle

SpecMacro == InitMacro /\ [][DoParseMacros]_vars

\* _zmk_key_to_qmk over modifier tokens nested up to MaxDepth deep
ModNames == {"LG", "LS", "LC", "HYPER"}

BaseKeys == {"K", "MINUS", "KC_F13", "VOL_UP"}

RECURSIVE Nest(_, _)
Nest(mods, key) ==
    IF mods = <<>> THEN key ELSE Head(mods) \o "(" \o Nest(Tail(mods), key) \o ")"

ModSeqs == UNION { [1..d -> ModNames] : d \in 0..MaxDepth }

InitKey ==
    /\ pc = "key"
    /\ args = [local |-> <<>>, template |-> <<>>]
    /\ files = NoFiles
    /\ keymap_content = EmptyContent
    /\ template = NoJson
    /\ keymap = EmptyKeymap
    /\ tap_dances = <<>>
    /\ td_map = <<>>
    /\ vil = <<>>
    /\ output = <<>>
    /\ trace = <<>>
    /\ zmk_key \in { Nest(mods, key) : mods \in ModSeqs, key \in BaseKeys }
    /\ qmk_key = <<>>

SpecKey == InitKey /\ [][TranslateKey]_vars

\* up to MaxCalls calls of _create_tap_dance, with any arguments
TapKeys == {"A", "X", "X|KC_Y"}

HoldKeys == {"Z", "KC_Y|KC_Z"}

OwnerNames == {"mt", "hm"}

InitTd ==
    /\ pc = "tap_dance"
    /\ args = [local |-> <<>>, template |-> <<>>]
    /\ files = NoFiles
    /\ keymap_content = EmptyContent
    /\ template = NoJson
    /\ \E c \in {"absent", "tt"} :
          keymap = [EmptyKeymap EXCEPT
                       !.behaviors = ParseBehaviors(
                           Source(0, 0, 0, c, "absent", FALSE), <<>>)]
    /\ tap_dances = <<>>
    /\ td_map = <<>>
    /\ vil = <<>>
    /\ output = <<>>
    /\ trace = <<>>
    /\ zmk_key = ""
    /\ qmk_key = <<>>

NextTd ==
    /\ Len(trace) < MaxCalls
    /\ \E tap_key \in TapKeys, hold_key \in HoldKeys, behavior \in OwnerNames :
          TapDanceCall(tap_key, hold_key, behavior)

SpecTd == InitTd /\ [][NextTd]_vars

\* ZMKParser(content).parse() over texts of up to MaxBlocks blocks, each
\* written in the open or inside a comment
TextBlocks ==
    { BehaviorText("mt0", Body("tt", 250, 0), c) : c \in BOOLEAN }
    \cup { MacroText("m1", <<"&kp", "H">>, c) : c \in BOOLEAN }
    \cup { MacroText("m2", <<"&kp", "F1">>, c) : c \in BOOLEAN }
    \cup { ComboText(<<"&kp", "ESC">>, <<"0", "1">>, "bindings_first", c) :
             c \in BOOLEAN }
    \cup { LayerText("base_layer", <<"&m1", "&m2", "&mt0", "LSHFT", "A">>, c) :
             c \in BOOLEAN }

InitCom ==
    /\ pc = "parse_behaviors"
    /\ args = [local |-> <<"corne.keymap">>, template |-> <<>>]
    /\ \E text \in SeqsUpTo(TextBlocks, MaxBlocks) :
          /\ files = [NoFiles EXCEPT !.content = text]
          /\ keymap_content = Recognise(text)
    /\ template = [type |-> "dict", val |-> DefaultTemplate]
    /\ Idle

NextCom ==
    \/ DoParseBehaviors
    \/ DoParseMacros
    \/ DoParseCombos
    \/ DoParseLayers

SpecCom == InitCom /\ [][NextCom]_vars

\* _parse_macros and _parse_combos over a text of one macro and up to
\* MaxComboBlocks combo blocks, of every binding form and both property orders
ComboBindings ==
    { <<"&none">>, <<"&trans">>, <<"&kp", "A">>, <<"&mt", "LSHFT", "A">>,
      <<"&lt", "1", "SPACE">>, <<"&mo", "1">>, <<"&to", "2">>, <<"&m1">> }

ComboBlocks ==
    { ComboText(b, <<"0", "1">>, o, FALSE) :
        b \in ComboBindings, o \in {"bindings_first", "positions_first"} }

InitCombo ==
    /\ pc = "parse_macros"
    /\ args = [local |-> <<"corne.keymap">>, template |-> <<>>]
    /\ \E combos \in SeqsUpTo(ComboBlocks, MaxComboBlocks) :
          LET text == << MacroText("m1", <<"&kp", "H">>, FALSE) >> \o combos
          IN  /\ files = [NoFiles EXCEPT !.content = text]
              /\ keymap_content = Recognise(text)
    /\ template = NoJson
    /\ Idle

NextCombo ==
    \/ DoParseMacros
    \/ DoParseCombos

SpecCombo == InitCombo /\ [][NextCombo]_vars

\* _parse_layers over one layer whose bindings start with a behavior keyword
\* the parser does not know, followed by up to MaxTokens tokens
RestTokens == {"&foo", "&kp", "&trans", "A", "B"}

InitBind ==
    /\ pc = "parse_layers"
    /\ args = [local |-> <<"corne.keymap">>, template |-> <<>>]
    /\ files = NoFiles
    /\ \E rest \in SeqsUpTo(RestTokens, MaxTokens) :
          keymap_content =
              [EmptyContent EXCEPT
                  !.has_keymap = TRUE,
                  !.layers = << [name |-> "base_layer",
                                 bindings |-> <<"&foo">> \o rest] >>]
    /\ template = NoJson
    /\ Idle

SpecBind == InitBind /\ [][DoParseLayers]_vars

\* parse() from _parse_macros on and generate() over a text of up to
\* MaxMacroBlocks macro blocks, names repeated or not, and one layer that
\* refers to each of the three names
RefNames == <<"m1", "m2", "m3">>

RefMacroBlocks ==
    { MacroText(RefNames[n], b, FALSE) :
        n \in 1..Len(RefNames), b \in { <<"&kp", "H">>, <<"&kp", "F1">> } }

InitRef ==
    /\ pc = "parse_macros"
    /\ args = [local |-> <<"corne.keymap">>, template |-> <<>>]
    /\ \E macros \in SeqsUpTo(RefMacroBlocks, MaxMacroBlocks) :
          LET text == macros \o
                      << LayerText("base_layer",
                                   [j \in 1..Len(RefNames) |-> "&" \o RefNames[j]],
                                   FALSE) >>
          IN  /\ files = [NoFiles EXCEPT !.content = text]
              /\ keymap_content = Recognise(text)
    /\ template = [type |-> "dict", val |-> DefaultTemplate]
    /\ Idle

NextRef ==
    \/ DoParseMacros
    \/ DoParseCombos
    \/ DoParseLayers
    \/ Generate

SpecRef == InitRef /\ [][NextRef]_vars

\* parse() and generate() over one layer of up to MaxCalls mod-tap bindings
\* under the names mt, mt0 and mti, with mt and mt0 declared or not and mti
\* never declared
TermBindings ==
    { <<"&" \o b, "LSHFT", t>> : b \in {"mt", "mt0", "mti"}, t \in {"A", "B"} }

RECURSIVE Flatten(_)
Flatten(seqs) == IF seqs = <<>> THEN <<>> ELSE Head(seqs) \o Flatten(Tail(seqs))

InitTerm ==
    /\ pc = "parse_behaviors"
    /\ args = [local |-> <<"corne.keymap">>, template |-> <<>>]
    /\ files = NoFiles
    /\ \E mt \in {"absent", "tt"}, mt0 \in {"absent", "tt"} :
       \E bindings \in SeqsUpTo(TermBindings, MaxCalls) :
          keymap_content =
              [Source(0, 0, 0, mt, mt0, TRUE) EXCEPT
                  !.layers = << [name |-> "base_layer",
                                 bindings |-> Flatten(bindings)] >>]
    /\ template = [type |-> "dict", val |-> DefaultTemplate]
    /\ Idle

SpecTerm == InitTerm /\ [][NextProj]_vars

-----------------------------------------------------------------------------
(* Properties                                                              *)

Generated == pc = "write"

\* C1: with the built-in default template, the layout generate() returns has
\* exactly 10 layers, each of exactly 8 rows of exactly 6 slots, whatever the
\* number of layers and of keys per layer in the source.
C1_LayoutIs10x8x6 ==
    Generated /\ template.val = DefaultTemplate =>
        /\ Len(vil.layout) = 10
        /\ \A l \in 1..Len(vil.layout) :
              /\ Len(vil.layout[l]) = 8
              /\ \A r \in 1..8 : Len(vil.layout[l][r]) = 6

\* C2: the record generate() returns has exactly 32 tap-dance rows, 16 macro
\* rows and 32 combo rows, whatever the number of entries collected.
C2_FixedCapacities ==
    Generated =>
        /\ Len(vil.tap_dance) = 32
        /\ Len(vil.macro) = 16
        /\ Len(vil.combo) = 32

SamePair(a, b) == a.tap = b.tap /\ a.hold = b.hold

\* the first call of the trace with the (tap, hold) pair of call j
FirstCall(j) ==
    CHOOSE i \in 1..j :
        /\ SamePair(trace[i], trace[j])
        /\ \A h \in 1..(i - 1) : ~SamePair(trace[h], trace[j])

\* C4: after any sequence of _create_tap_dance calls no two entries of
\* tap_dances share a (tap, hold) pair, and a call whose pair occurred before
\* returns the reference its first occurrence returned and adds no entry.
C4_Dedup ==
    /\ \A i, j \in 1..Len(tap_dances) :
          i # j => ~SamePair(tap_dances[i], tap_dances[j])
    /\ \A j \in 1..Len(trace) :
          FirstCall(j) < j =>
              /\ trace[j].ret = trace[FirstCall(j)].ret
              /\ trace[j].after = trace[j].before

\* a pair was requested twice, the second time under another behavior name
C4_Witness ==
    \E i, j \in 1..Len(trace) :
        /\ i < j
        /\ SamePair(trace[i], trace[j])
        /\ trace[i].behavior # trace[j].behavior
        /\ trace[j].ret = "TD(1)"

\* C5: a layer whose slots are k[0..41] is projected to rows k[0..5],
\* k[12..17], k[24..29], then -1 -1 -1 k[36..38], then k[6..11], k[18..23],
\* k[30..35] each reversed, then -1 -1 -1 and k[39..41] reversed.
C5_RowMapping ==
    Generated =>
        \A l \in 1..Len(keymap.layers) :
            LET k(n) == keymap.layers[l].keys[n + 1]
                row(r) == vil.layout[l][r + 1]
            IN  /\ row(0) = <<k(0), k(1), k(2), k(3), k(4), k(5)>>
                /\ row(1) = <<k(12), k(13), k(14), k(15), k(16), k(17)>>
                /\ row(2) = <<k(24), k(25), k(26), k(27), k(28), k(29)>>
                /\ row(3) = <<-1, -1, -1, k(36), k(37), k(38)>>
                /\ row(4) = <<k(11), k(10), k(9), k(8), k(7), k(6)>>
                /\ row(5) = <<k(23), k(22), k(21), k(20), k(19), k(18)>>
                /\ row(6) = <<k(35), k(34), k(33), k(32), k(31), k(30)>>
                /\ row(7) = <<-1, -1, -1, k(41), k(40), k(39)>>

\* a layer of 42 distinct keys has been projected: G..L come out as L..G
C5_Witness ==
    /\ Generated
    /\ Len(keymap.layers) >= 1
    /\ Len(keymap_content.layers[1].bindings) = 84
    /\ vil.layout[1][5] = <<"KC_L", "KC_K", "KC_J", "KC_I", "KC_H", "KC_G">>

\* the keys _parse_macros extracted from the one macro block of the source
MacroKeys ==
    LET b == keymap_content.macros[1].bindings
    IN  [k \in 1..(Len(b) \div 2) |-> b[2 * k]]

MacroParsed == pc = "parse_combos" /\ Len(keymap_content.macros) = 1

\* the character of each key that has one: through the text table, through
\* the shift-wrapped form of a table key, or the newline of ENTER
CharOf ==
    [k \in {"H", "I", "LS(S)", "ENTER", "LS(MINUS)"} |->
        CASE k = "H" -> "h" [] k = "I" -> "i" [] k = "LS(S)" -> "S"
          [] k = "ENTER" -> "\n" [] k = "LS(MINUS)" -> "-"]

KeycodeOf ==
    [k \in MacroKeySet |->
        CASE k = "H" -> "KC_H" [] k = "I" -> "KC_I" [] k = "F1" -> "KC_F1"
          [] k = "NONE" -> "KC_NONE" [] k = "LS(S)" -> "LSFT(KC_S)"
          [] k = "ENTER" -> "KC_ENTER" [] k = "LS(MINUS)" -> "LSFT(KC_MINUS)"
          [] k = "LS(F1)" -> "LSFT(KC_F1)"]

RECURSIVE Chars(_)
Chars(keys) ==
    IF keys = <<>> THEN ""
    ELSE (IF Head(keys) \in DOMAIN CharOf THEN CharOf[Head(keys)] ELSE "")
         \o Chars(Tail(keys))

TapOf(keys) == <<"tap">> \o [k \in 1..Len(keys) |-> KeycodeOf[keys[k]]]

\* C6 as stated: a macro with at least one key press holds the one action
\* ["text", s], s the characters of its keys in order, when every key has a
\* character, and the one action ["tap", keycodes of all its keys] as soon as
\* one key has no character mapping.
C6_AllOrNothing ==
    MacroParsed /\ MacroKeys # <<>> =>
        LET actions == keymap.macros[1].actions
        IN  IF \A k \in 1..Len(MacroKeys) : MacroKeys[k] \in DOMAIN CharOf
            THEN actions = << <<"text", Chars(MacroKeys)>> >>
            ELSE actions = << TapOf(MacroKeys) >>

\* C6 as amended: NONE and none are skipped and add no character.  The macro
\* holds the one action ["text", s] when every key has a character or is
\* skipped and at least one has a character, s being the characters in order;
\* in every other case it holds the one action ["tap", keycodes of all its
\* keys in order].  No text action carries the characters up to a key that
\* cannot be mapped.
C6_AllOrNothingButNone ==
    MacroParsed /\ MacroKeys # <<>> =>
        LET actions == keymap.macros[1].actions
            skipped(k) == MacroKeys[k] \in {"NONE", "none"}
        IN  IF /\ \A k \in 1..Len(MacroKeys) :
                      MacroKeys[k] \in DOMAIN CharOf \/ skipped(k)
               /\ \E k \in 1..Len(MacroKeys) : MacroKeys[k] \in DOMAIN CharOf
            THEN actions = << <<"text", Chars(MacroKeys)>> >>
            ELSE actions = << TapOf(MacroKeys) >>

\* H, I and then a function key: the macro is a tap sequence of all three
C6_Witness ==
    /\ MacroParsed
    /\ MacroKeys = <<"H", "I", "F1">>
    /\ keymap.macros[1].actions = << <<"tap", "KC_H", "KC_I", "KC_F1">> >>

\* alias(M1)(alias(M2)(...(inner))) for the modifier names mods, outermost first
RECURSIVE Wrapped(_, _)
Wrapped(mods, inner) ==
    IF mods = <<>> THEN inner
    ELSE (IF Head(mods) \in DOMAIN ZMK_MOD_MAP THEN ZMK_MOD_MAP[Head(mods)]
          ELSE Head(mods))
         \o "(" \o Wrapped(Tail(mods), inner) \o ")"

BaseKeycode ==
    [k \in BaseKeys |->
        CASE k = "K" -> "KC_K" [] k = "MINUS" -> "KC_MINUS" [] k = "KC_F13" -> "KC_F13"
          [] k = "VOL_UP" -> "KC_VOL_UP"]

\* C7: the translation of M1(M2(...(K))) is alias(M1)(alias(M2)(...(translation
\* of K))), at every depth, the modifiers in the order written.
C7_NestingOrder ==
    qmk_key # <<>> =>
        \A mods \in ModSeqs : \A key \in BaseKeys :
            zmk_key = Nest(mods, key) => qmk_key[1] = Wrapped(mods, BaseKeycode[key])

C7_Witness ==
    /\ zmk_key = "LG(LS(K))"
    /\ qmk_key = <<"LGUI(LSFT(KC_K))">>

\* C8: the output file is written only when the source was retrieved and
\* parse and generate have completed; a run whose retrieval failed has
\* stopped and has written nothing.
C8_NoOutputWithoutSource ==
    /\ output # <<>> =>
          /\ files.source = "ok"
          /\ pc = "done"
          /\ keymap_content = SourceText(files.content)
          /\ output = <<vil>>
          /\ Len(vil.layout) >= Len(keymap.layers)
    /\ files.source # "ok" =>
          /\ output = <<>>
          /\ pc \in {"retrieve", "exit1", "crashed"}

\* a run that fetched the source has written its output
C8_Witness ==
    /\ pc = "done"
    /\ args.local = <<>>
    /\ output = <<vil>>

\* C9: no template, however unreadable or malformed, makes the run fail: a
\* run whose source was retrieved never ends in an uncaught exception.
C9_TemplateNeverFatal ==
    files.source = "ok" => pc # "crashed"

\* C10: settings '4' is the tapping term of the first declared of mt, mt0 and
\* settings '10' the idle threshold of that same behavior when it is not 0;
\* every other setting, and '10' when the threshold is 0, is the template's.
C10_SettingsFromSameBehavior ==
    Generated =>
        LET b == keymap.behaviors
            old == template.val.settings
            new == vil.settings
            from == IF "mt" \in DOMAIN b THEN <<b["mt"]>>
                    ELSE IF "mt0" \in DOMAIN b THEN <<b["mt0"]>> ELSE <<>>
            set == IF from = <<>> THEN {}
                   ELSE IF from[1].require_prior_idle # 0 THEN {"4", "10"} ELSE {"4"}
        IN  /\ DOMAIN new = DOMAIN old \cup set
            /\ \A k \in DOMAIN old \ set : new[k] = old[k]
            /\ "4" \in set => new["4"] = from[1].tapping_term
            /\ "10" \in set => new["10"] = from[1].require_prior_idle

\* the Keymap and the tap dances ZMKParser.parse() builds from a content
ParsedFrom(content) ==
    LET behaviors == ParseBehaviors(content, EmptyKeymap.behaviors)
        macros == ParseMacros(content, EmptyKeymap.macros)
        combos == ParseCombos(content, EmptyKeymap.combos)
        km == [behaviors |-> behaviors, macros |-> macros, combos |-> combos,
               layers |-> EmptyKeymap.layers]
        r == ParseLayers(content, km, <<>>, <<>>)
    IN  [keymap |-> [km EXCEPT !.layers = r.layers], tap_dances |-> r.tap_dances]

\* C11: comments are removed before every extraction step: a behavior, macro,
\* combo or layer block written only inside a comment contributes nothing, so
\* the Keymap (and the macro indices in its layers) parse() returns is the one
\* of the text with its comments removed.
C11_CommentsContributeNothing ==
    pc = "generate" =>
        LET clean == ParsedFrom(Recognise(StripComments(files.content)))
        IN  /\ keymap = clean.keymap
            /\ tap_dances = clean.tap_dances

\* the combo blocks of the text, in source order
ComboTexts == OfKind(files.content, {"combo"})

\* C12: a combo block is recognised whichever of bindings and key-positions
\* comes first, with the same positions and result, and the combos are
\* appended in source order.
C12_ComboOrderIrrelevant ==
    pc = "parse_layers" =>
        /\ Len(keymap.combos) = Len(ComboTexts)
        /\ \A k \in 1..Len(ComboTexts) :
              keymap.combos[k] =
                  [keys |-> ComboKeys(ComboTexts[k].positions),
                   result |-> ConvertBinding(ComboTexts[k].bindings)]

\* C13: the result of a recognised combo is the one action _parse_bindings
\* produces for the combo's binding, for every form of the binding grammar.
C13_ComboResultAsLayerBinding ==
    pc = "parse_layers" =>
        \A k \in 1..Len(keymap.combos) :
            ParseBindings(keymap_content.combos[k].binding,
                          [tap_dances |-> <<>>, td_map |-> <<>>], keymap).keys
                = << keymap.combos[k].result >>

\* the tokens after the unknown keyword of the one layer
RestOfBindings == Tail(keymap_content.layers[1].bindings)

\* C14: an unknown behavior keyword gives a tap-dance reference and consumes
\* the two following tokens only when both are non-behavior tokens; in every
\* other case it gives KC_NO and consumes nothing, the following tokens being
\* converted as bindings of their own.
C14_UnknownKeyword ==
    pc = "generate" =>
        LET rest == RestOfBindings
            keys == keymap.layers[1].keys
            both == /\ Len(rest) >= 2
                    /\ ~StartsWith(rest[1], "&")
                    /\ ~StartsWith(rest[2], "&")
            dance == NewTapDance(ZmkKeyToQmk(rest[2]), ZmkKeyToQmk(rest[1]), 140)
        IN  IF both
            THEN /\ Head(keys) = "TD(0)"
                 /\ Head(tap_dances) = dance
                 /\ Tail(keys) =
                       ParseBindings(SubSeq(rest, 3, Len(rest)),
                                     [tap_dances |-> << dance >>,
                                      td_map |-> TdKey(dance.tap, dance.hold) :> 0],
                                     keymap).keys
            ELSE /\ Head(keys) = "KC_NO"
                 /\ Tail(keys) =
                       ParseBindings(rest, [tap_dances |-> <<>>, td_map |-> <<>>],
                                     keymap).keys

\* the macro names of the text in the order of their first occurrence
RECURSIVE FirstOccurrences(_, _)
FirstOccurrences(blocks, seen) ==
    IF blocks = <<>> THEN seen
    ELSE FirstOccurrences(Tail(blocks),
                          IF \E k \in 1..Len(seen) : seen[k] = Head(blocks).name
                          THEN seen ELSE Append(seen, Head(blocks).name))

ExtractionOrder == FirstOccurrences(OfKind(files.content, {"macro"}), <<>>)

\* the action list the Keymap holds for macro name n
ActionsOfMacro(n) ==
    keymap.macros[CHOOSE k \in 1..Len(keymap.macros) : keymap.macros[k].name = n].actions

\* C15: no layer binding is converted before the macros are extracted; the
\* binding of an extracted macro name n is the action M<k>, and whenever a
\* layer holds M<k> for n, n is the k-th (from 0) distinct macro name in
\* extraction order and row k of the projected macro list is the action list
\* of macro n.
C15_MacroIndexStable ==
    /\ pc \in {"parse_macros", "parse_combos", "parse_layers"} => keymap.layers = <<>>
    /\ pc \in {"generate", "write"} =>
          \A j \in 1..Len(RefNames) :
              LET n == RefNames[j]
                  key == keymap.layers[1].keys[j]
              IN  /\ (\E k \in 1..Len(ExtractionOrder) : ExtractionOrder[k] = n)
                        => \E k \in 0..(Len(ExtractionOrder) - 1) :
                              key = "M" \o ToString(k)
                  /\ \A k \in 0..MaxMacroBlocks :
                        key = "M" \o ToString(k) =>
                            /\ k < Len(ExtractionOrder)
                            /\ ExtractionOrder[k + 1] = n
                            /\ pc = "write" => vil.macro[k + 1] = ActionsOfMacro(n)

\* m2 declared twice around m1: the layer refers to m1 as M1 and to m2 as M0,
\* and row 0 of the projected list is the second declaration of m2
C15_Witness ==
    /\ pc = "write"
    /\ ExtractionOrder = <<"m2", "m1">>
    /\ Len(OfKind(files.content, {"macro"})) = 3
    /\ SubSeq(keymap.layers[1].keys, 1, 3) = <<"M1", "M0", "KC_NO">>
    /\ vil.macro[1] = << <<"tap", "KC_F1">> >>
    /\ vil.macro[2] = << <<"text", "h">> >>

\* C16: the tap-dance entry the reference of an mt/mt0/mti binding points to,
\* and the fifth field of its projected row, hold the tapping term of the
\* binding's own behavior name if that behavior is declared, else the one of
\* the behavior mt if declared, else 140, also when the same (tap, hold) pair
\* was requested before under another behavior name.
C16_TermOfOwnBehavior ==
    pc \in {"generate", "write"} =>
        LET bindings == keymap_content.layers[1].bindings
        IN  \A j \in 1..(Len(bindings) \div 3) :
                LET b == Tail(bindings[3 * j - 2])
                    ref == keymap.layers[1].keys[j]
                    n == CHOOSE n \in 0..(Len(tap_dances) - 1) : TdRef(n) = ref
                    term == IF b \in DOMAIN keymap.behaviors
                            THEN keymap.behaviors[b].tapping_term
                            ELSE IF "mt" \in DOMAIN keymap.behaviors
                                 THEN keymap.behaviors["mt"].tapping_term
                                 ELSE 140
                IN  /\ tap_dances[n + 1].tapping_term = term
                    /\ pc = "write" => vil.tap_dance[n + 1][5] = term

\* C17: generate() leaves the Keymap as parse() returned it: layers (names,
\* key sequences and their lengths), behaviors, macros and combos.
C17_KeymapUnchangedByGenerate ==
    [][ pc = "generate" => keymap' = keymap ]_vars

====
